---- MODULE Spec2Model ----
(***************************************************************************)
(* Model of src/parser.py: the asynchronous fetch-reconcile pipeline       *)
(* main() with its retried Session calls login() and fetch_players(), the  *)
(* per-player task process_player() under asyncio.Semaphore(5), the        *)
(* Statistics counters and the JSON cache file.                            *)
(*                                                                         *)
(* asyncio is cooperative: code between two awaits is one atomic action.   *)
(* The remote server is the environment: every physical network attempt    *)
(* ends in one of the Outcomes below.                                      *)
(***************************************************************************)
EXTENDS Integers, Sequences, FiniteSets, TLC

(***************************************************************************)
(* Program constants                                                       *)
(***************************************************************************)
MAX_CONCURRENT_REQUESTS == 5
RETRY_ATTEMPTS == 3
PAGE_STEP == 50

(***************************************************************************)
(* Bounds of the model (not program constants)                             *)
(***************************************************************************)
\* longest roster the server holds in the runs with at most MaxFaults failures
MaxPlayers == 4
\* entries the server puts on one page
PageLen == 3
\* max_offset is drawn from {0, 50, ..., 50 * MaxCeil}
MaxCeil == 2
\* failing physical attempts the environment injects in one run
MaxFaults == 3
\* tasks beyond MAX_CONCURRENT_REQUESTS in the runs that fill the semaphore
ExtraTasks == 1
\* failing physical attempts injected in a run that fills the semaphore
LimiterFaults == 1

(***************************************************************************)
(* Values                                                                  *)
(***************************************************************************)
Null == "null"
\* Python's None as a task's return value
None == [none |-> TRUE]
\* a summary whose 'minecraft_nickname' is missing or empty
NoNick == ""
Nicknames == {"a", "b", "c", "d"}

\* The profile document the server holds for a nickname, as the Record
\* parse_player_profile extracts from it (the two required fields).
\* Field values are written as their JSON text.
Profile(nick) ==
    CASE nick = "a" -> [status_main |-> Null, stats |-> "[a]"]
      [] nick = "b" -> [status_main |-> "x",  stats |-> Null]
      [] nick = "c" -> [status_main |-> Null, stats |-> Null]
      [] OTHER      -> [status_main |-> "y",  stats |-> "[s]"]

\* The server's roster: the first n entries of a fixed pattern with
\* duplicates, an entry without nickname and an entity whose profile is
\* invalid.
Pattern == <<"a", NoNick, "b", "a", "c", "d", "a", "c", "b">>
Roster(n) == [i \in 1..n |-> Pattern[((i - 1) % Len(Pattern)) + 1]]

Min(x, y) == IF x <= y THEN x ELSE y

\* The page the server answers for an offset: page number offset / 50.
ServerPage(roster, offset) ==
    LET k == offset \div PAGE_STEP
    IN  SubSeq(roster, k * PageLen + 1, Min((k + 1) * PageLen, Len(roster)))

(***************************************************************************)
(* Outcomes of one physical network attempt                                *)
(*   ok       2xx response, body read                                      *)
(*   conn     the request raises ClientConnectorError, no response         *)
(*   s4xx     response with a 4xx status: raise_for_status raises          *)
(*   s5xx     response with a 5xx status: raise_for_status raises          *)
(*   payload  2xx response, reading the body raises ClientPayloadError     *)
(*   timeout  the session's total timeout expires before a response:       *)
(*            asyncio.TimeoutError, which is not an aiohttp.ClientError    *)
(***************************************************************************)
Outcomes == {"ok", "conn", "s4xx", "s5xx", "payload", "timeout"}
\* login reads no body
LoginOutcomes == Outcomes \ {"payload"}
\* the outcomes injected into profile requests: one per path through
\* process_player (a 4xx status takes the path of a 5xx status, a body that
\* breaks off the path of a status error of another type name)
ProfileOutcomes == {"ok", "conn", "s5xx", "timeout"}

ExcType(o) ==
    CASE o = "conn"    -> "ClientConnectorError"
      [] o \in {"s4xx", "s5xx"} -> "ClientResponseError"
      [] o = "payload" -> "ClientPayloadError"
      [] o = "timeout" -> "TimeoutError"
      [] OTHER         -> "none"

ClientErrors == {"ClientConnectorError", "ClientResponseError", "ClientPayloadError"}
IsClientError(type) == type \in ClientErrors
ExcTypes == ClientErrors \cup {"TimeoutError"}

\* a response object was obtained (the body of "async with ... as response" runs)
GotResponse(o) == o \in {"ok", "s4xx", "s5xx", "payload"}

(***************************************************************************)
(* Statistics                                                              *)
(***************************************************************************)
NewStatistics ==
    [players_processed |-> 0, requests_made |-> 0, retries |-> 0,
     failures |-> [e \in ExcTypes |-> 0], success |-> 0]

log_request(s) == [s EXCEPT !.requests_made = @ + 1]
log_retry_skipped(s) == s
log_retry(s) == [s EXCEPT !.retries = @ + 1]
log_failure(s, type) == [s EXCEPT !.failures[type] = @ + 1]
log_success(s) == [s EXCEPT !.success = @ + 1]

(***************************************************************************)
(* tenacity @retry(stop_after_attempt, retry_if_exception_type,            *)
(* before_sleep)                                                           *)
(***************************************************************************)
retry_if_any_exception(type) == TRUE
retry_if_exception_type(type) == IsClientError(type)

stop_after_one_more(attempt_number) == attempt_number >= RETRY_ATTEMPTS + 1
stop_after_attempt(attempt_number) == attempt_number >= RETRY_ATTEMPTS

\* What the retrying wrapper does after attempt number attempt_number ended
\* with outcome o: return the value, re-raise the exception unchanged, raise
\* RetryError, or call before_sleep and sleep.
RetryDecision(o, attempt_number) ==
    IF o = "ok" THEN "return"
    ELSE IF ~retry_if_exception_type(ExcType(o)) THEN "reraise"
    ELSE IF stop_after_attempt(attempt_number) THEN "retry_error"
    ELSE "sleep"

Raised(o, decision) == IF decision = "retry_error" THEN "RetryError" ELSE ExcType(o)

before_sleep(s) == log_retry(s)

(***************************************************************************)
(* Cache                                                                   *)
(***************************************************************************)
EmptyCache == [k \in {} |-> Null]
required_fields == {"status_main", "stats"}

validate_anything(data) == TRUE
validate_all_fields(data) ==
    \A field \in required_fields : field \in DOMAIN data /\ data[field] # Null
validate_player_data(data) ==
    \E field \in required_fields : field \in DOMAIN data /\ data[field] # Null

put_nothing(cache, k, v) == cache
put_alone(cache, k, v) == [x \in {k} |-> v]
Put(cache, k, v) == [x \in DOMAIN cache \cup {k} |-> IF x = k THEN v ELSE cache[x]]

\* The cache file: absent, a JSON text, or empty (truncated).
Absent == [kind |-> "absent"]
Truncated == [kind |-> "empty"]
Json(cache) == [kind |-> "json", content |-> cache]

\* load_cache: an absent file gives {}; an existing file is handed to
\* orjson.loads as a file object, which raises, and the handler returns {}.
load_cache_parsed(file) == IF file.kind = "json" THEN file.content ELSE EmptyCache
load_cache(file) == EmptyCache

\* save_cache: open(..., 'w') truncates the file, orjson.dumps is called with
\* arguments it does not take and raises, the handler logs: the file is left
\* empty.
save_cache(cache) == Truncated


(***************************************************************************)
(* State                                                                   *)
(***************************************************************************)
VARIABLES
    input,          \* what the run is started with: credentials given, max_offset,
                    \* the server's roster, the cache file found on disk
    mainPc,         \* where main() is
    raised,         \* the exception that left main(), or "none"
    call,           \* the logical Session call main() is in, or made last: the
                    \* operation, the attempts made and their outcomes, its
                    \* result, and the counters when it began
    offset,         \* main's local offset
    all_players,    \* main's local all_players (nicknames, NoNick if none)
    previous_cache, \* main's local previous_cache
    current_cache,  \* main's local current_cache
    file,           \* the cache file player_data.json
    stats,          \* the module-level Statistics object
    tasks,          \* tasks[t]: the nickname of the t-th created task
    taskPc,         \* where each process_player task is
    result,         \* what each task returned
    taskOut,        \* how each task ended: "none", "hit" or the fetch outcome
    taskAttempts,   \* physical fetch attempts each task made
    sem,            \* the semaphore's _value
    waiters,        \* the semaphore's _waiters not yet woken, oldest first
    effects,        \* the side effects of finalizing, in order
    rendered,       \* the arguments generate_html_report was called with
    faults,         \* failing attempts injected so far
    pageCalls,      \* the offsets fetch_players was called with, in order
    physical,       \* physical network attempts made so far in this run
    taskWrote,      \* the Cache keys each task assigned
    run,            \* 1 in a first run, 2 in the run that follows it
    firstSnapshot   \* in the second run: current_cache and the cache file at
                    \* the end of the first

vars == <<input, mainPc, raised, call, offset, all_players, previous_cache,
          current_cache, file, stats, tasks, taskPc, result, taskOut,
          taskAttempts, sem, waiters, effects, rendered, faults, pageCalls,
          physical, taskWrote, run, firstSnapshot>>

mainVars == <<offset, all_players, pageCalls>>
cacheVars == <<previous_cache, current_cache, file>>
taskVars == <<tasks, taskPc, result, taskOut, taskAttempts, taskWrote, sem, waiters>>
runVars == <<run, firstSnapshot>>
finalVars == <<effects, rendered>>

TaskIds == 1..Len(tasks)

\* A cache file a former run could have left, had it been written as JSON.
SampleCache == Put(EmptyCache, "a", Profile("a"))
InitialFiles == {Absent, Json(SampleCache)}

Inputs ==
    [creds : BOOLEAN,
     max_offset : {PAGE_STEP * k : k \in 0..MaxCeil},
     roster : {Roster(n) : n \in 0..MaxPlayers},
     file : InitialFiles,
     budget : {MaxFaults}]

\* Runs with more players than the semaphore has permits: the roster holds
\* one entry without nickname, and max_offset lets all of it be listed.
LimiterPlayers == MAX_CONCURRENT_REQUESTS + ExtraTasks + 1
LimiterInputs ==
    [creds : {TRUE},
     max_offset : {PAGE_STEP * (LimiterPlayers \div PageLen)},
     roster : {Roster(LimiterPlayers)},
     file : InitialFiles,
     budget : {LimiterFaults}]

NewCall(op, s) ==
    [op |-> op, attempt |-> 0, outs |-> <<>>, result |-> "pending",
     retries0 |-> s.retries, success0 |-> s.success]

Constructed ==
    /\ mainPc = "idle"
    /\ raised = "none"
    /\ call = NewCall("none", NewStatistics)
    /\ offset = 0
    /\ all_players = <<>>
    /\ previous_cache = EmptyCache
    /\ current_cache = EmptyCache
    /\ file = input.file
    /\ stats = NewStatistics
    /\ tasks = <<>>
    /\ taskPc = <<>>
    /\ result = <<>>
    /\ taskOut = <<>>
    /\ taskAttempts = <<>>
    /\ sem = 0
    /\ waiters = <<>>
    /\ effects = <<>>
    /\ rendered = <<>>
    /\ faults = 0
    /\ pageCalls = <<>>
    /\ physical = 0
    /\ taskWrote = <<>>

Init ==
    /\ input \in Inputs \cup LimiterInputs
    /\ Constructed
    /\ run = 1
    /\ firstSnapshot = [cache |-> EmptyCache, file |-> Absent]

\* the environment may still make an attempt end with outcome o
\* (the run that follows a first run meets the same server and no failure)
MayEnd(o) == o = "ok" \/ (run = 1 /\ faults < input.budget)
Injected(o) == IF o = "ok" THEN faults ELSE faults + 1

(***************************************************************************)
(* __main__ and main(): start, login                                       *)
(***************************************************************************)
\* lines 659-661: no username or password: exit(1) before main runs
MissingCredentials ==
    /\ mainPc = "idle"
    /\ ~input.creds
    /\ mainPc' = "exit1"
    /\ UNCHANGED <<input, runVars, raised, call, mainVars, cacheVars, stats, taskVars,
                   finalVars, faults, physical>>

\* lines 604-611: semaphore, load_cache, copy, session; login is called
Start ==
    /\ mainPc = "idle"
    /\ input.creds
    /\ sem' = MAX_CONCURRENT_REQUESTS
    /\ previous_cache' = load_cache(file)
    /\ current_cache' = load_cache(file)
    /\ call' = NewCall("login", stats)
    /\ mainPc' = "login"
    /\ UNCHANGED <<input, runVars, raised, mainVars, file, stats, tasks, taskPc,
                   result, taskOut, taskAttempts, taskWrote, waiters, finalVars,
                   faults, physical>>

\* lines 104-113: the body of login for one physical attempt
login_body(s, o) ==
    IF o = "ok" THEN log_success(s)
    ELSE IF IsClientError(ExcType(o)) THEN log_failure(s, ExcType(o))
    ELSE s

\* lines 611-613: an exception out of login leaves main; True goes on
login_raised_ignored == "enum"
login_raised == "aborted"
login_returned == "enum"

AfterAttempt(s, decision) == IF decision = "sleep" THEN before_sleep(s) ELSE s

CallAfter(c, o, decision) ==
    [c EXCEPT !.attempt = @ + 1, !.outs = Append(@, o),
              !.result = CASE decision = "return" -> "ok"
                           [] decision = "sleep"  -> "pending"
                           [] OTHER               -> "error"]

\* one physical attempt of login and the retrying wrapper's decision
LoginAttempt(o) ==
    /\ mainPc = "login"
    /\ MayEnd(o)
    /\ LET d == RetryDecision(o, call.attempt + 1)
       IN  /\ stats' = AfterAttempt(login_body(stats, o), d)
           /\ call' = CallAfter(call, o, d)
           /\ mainPc' = CASE d = "sleep"  -> "login_sleep"
                          [] d = "return" -> login_returned
                          [] OTHER        -> login_raised
           /\ raised' = IF d \in {"reraise", "retry_error"} /\ login_raised = "aborted"
                        THEN Raised(o, d) ELSE raised
    /\ faults' = Injected(o)
    /\ physical' = physical + 1
    /\ UNCHANGED <<input, runVars, mainVars, cacheVars, taskVars, finalVars>>

\* wait_exponential elapsed: the next attempt starts
LoginWake ==
    /\ mainPc = "login_sleep"
    /\ mainPc' = "login"
    /\ UNCHANGED <<input, runVars, raised, call, mainVars, cacheVars, stats, taskVars,
                   finalVars, faults, physical>>

(***************************************************************************)
(* main(): enumeration, lines 616-627                                      *)
(***************************************************************************)
loop_condition_lt(off, max_offset) == off < max_offset
loop_condition(off, max_offset) == off <= max_offset

\* line 618: the loop head
EnumLoop ==
    /\ mainPc = "enum"
    /\ IF loop_condition(offset, input.max_offset)
       THEN /\ mainPc' = "list"
            /\ call' = NewCall("list", stats)
            /\ pageCalls' = Append(pageCalls, offset)
       ELSE /\ mainPc' = "schedule"
            /\ call' = call
            /\ pageCalls' = pageCalls
    /\ UNCHANGED <<input, runVars, raised, offset, all_players, cacheVars, stats,
                   taskVars, finalVars, faults, physical>>

\* lines 135-144: the body of fetch_players for one physical attempt
fetch_players_body(s, o) ==
    LET s1 == IF GotResponse(o) THEN log_request(s) ELSE s
        s2 == IF o \in {"ok", "payload"} THEN log_success(s1) ELSE s1
    IN  IF o # "ok" /\ IsClientError(ExcType(o))
        THEN log_failure(s2, ExcType(o)) ELSE s2

\* line 624: "if not players: break"
page_never_ends(players) == FALSE
page_ends_enumeration(players) == players = <<>>

\* one physical attempt of fetch_players, the wrapper's decision, and
\* lines 621-627 of main on a return or an exception
ListAttempt(o) ==
    /\ mainPc = "list"
    /\ MayEnd(o)
    /\ LET d == RetryDecision(o, call.attempt + 1)
           players == ServerPage(input.roster, offset)
       IN  /\ stats' = AfterAttempt(fetch_players_body(stats, o), d)
           /\ call' = CallAfter(call, o, d)
           /\ CASE d = "sleep" ->
                     /\ mainPc' = "list_sleep"
                     /\ UNCHANGED mainVars
                [] d = "return" /\ ~page_ends_enumeration(players) ->
                     /\ all_players' = all_players \o players
                     /\ offset' = offset + PAGE_STEP
                     /\ pageCalls' = pageCalls
                     /\ mainPc' = "enum"
                [] OTHER ->
                     /\ mainPc' = "schedule"
                     /\ UNCHANGED mainVars
    /\ faults' = Injected(o)
    /\ physical' = physical + 1
    /\ UNCHANGED <<input, runVars, raised, cacheVars, taskVars, finalVars>>

ListWake ==
    /\ mainPc = "list_sleep"
    /\ mainPc' = "list"
    /\ UNCHANGED <<input, runVars, raised, call, mainVars, cacheVars, stats, taskVars,
                   finalVars, faults, physical>>


(***************************************************************************)
(* main(): task creation and gather, lines 633-642                         *)
(***************************************************************************)
HasNickname(entry) == entry # NoNick

\* lines 635-640: one task per summary with a nickname; none runs before
\* main awaits gather
ScheduleTasks ==
    /\ mainPc = "schedule"
    /\ tasks' = SelectSeq(all_players, HasNickname)
    /\ taskPc' = [t \in 1..Len(tasks') |-> "created"]
    /\ result' = [t \in 1..Len(tasks') |-> None]
    /\ taskOut' = [t \in 1..Len(tasks') |-> "none"]
    /\ taskAttempts' = [t \in 1..Len(tasks') |-> 0]
    /\ taskWrote' = [t \in 1..Len(tasks') |-> {}]
    /\ mainPc' = "gather"
    /\ UNCHANGED <<input, runVars, raised, call, mainVars, cacheVars, stats, sem, waiters,
                   finalVars, faults, physical>>

(***************************************************************************)
(* asyncio.Semaphore                                                       *)
(***************************************************************************)
never_locked(value, waiting) == FALSE
\* Semaphore.locked
locked(value, waiting) == value = 0 \/ waiting # <<>>

\* Semaphore.release: _value += 1, then _wake_up_next hands the permit to the
\* oldest waiter (_value -= 1, its future is set)
release_lost(value, waiting) == value
ReleasedValue(value, waiting) == IF waiting = <<>> THEN value + 1 ELSE value
ReleasedWaiters(waiting) == IF waiting = <<>> THEN <<>> ELSE Tail(waiting)
ReleasedPc(pcs, waiting) ==
    IF waiting = <<>> THEN pcs ELSE [pcs EXCEPT ![Head(waiting)] = "woken"]

\* tasks that hold a permit: past "async with semaphore", not yet out of it
Inside == {t \in TaskIds : taskPc[t] \in {"woken", "fetching"}}

(***************************************************************************)
(* process_player, lines 282-317                                           *)
(***************************************************************************)
\* lines 286-287: the skip path is taken
never_hit(cache, nick) == FALSE
CacheHit(cache, nick) == nick \in DOMAIN cache /\ validate_player_data(cache[nick])

\* the event loop runs the tasks' first steps in creation order
NextToStart(t) == taskPc[t] = "created" /\ \A u \in 1..(t - 1) : taskPc[u] # "created"
AllStarted == \A t \in TaskIds : taskPc[t] # "created"

\* lines 283-295 with a permit held: count the player, then either return the
\* cached record (leaving the semaphore) or issue the request and suspend.
\* v and w are the semaphore's value and waiters once the permit is held.
Admitted(t, v, w) ==
    /\ stats' = [stats EXCEPT !.players_processed = @ + 1]
    /\ IF CacheHit(current_cache, tasks[t])
       THEN /\ result' = [result EXCEPT ![t] = current_cache[tasks[t]]]
            /\ taskOut' = [taskOut EXCEPT ![t] = "hit"]
            /\ taskPc' = ReleasedPc([taskPc EXCEPT ![t] = "done"], w)
            /\ sem' = ReleasedValue(v, w)
            /\ waiters' = ReleasedWaiters(w)
       ELSE /\ taskPc' = [taskPc EXCEPT ![t] = "fetching"]
            /\ sem' = v
            /\ waiters' = w
            /\ UNCHANGED <<result, taskOut>>
    /\ UNCHANGED <<tasks, taskAttempts, taskWrote>>

\* line 282, first step of a task: acquire at once or queue up
TaskStart(t) ==
    /\ mainPc = "gather"
    /\ t \in TaskIds
    /\ NextToStart(t)
    /\ IF locked(sem, waiters)
       THEN /\ waiters' = Append(waiters, t)
            /\ taskPc' = [taskPc EXCEPT ![t] = "waiting"]
            /\ UNCHANGED <<stats, tasks, result, taskOut, taskAttempts, taskWrote,
                           sem>>
       ELSE Admitted(t, sem - 1, waiters)
    /\ UNCHANGED <<input, runVars, mainPc, raised, call, mainVars, cacheVars, finalVars,
                   faults, physical>>

\* line 282, a woken waiter resumes holding the permit
TaskResume(t) ==
    /\ mainPc = "gather"
    /\ t \in TaskIds
    /\ taskPc[t] = "woken"
    /\ Admitted(t, sem, waiters)
    /\ UNCHANGED <<input, runVars, mainPc, raised, call, mainVars, cacheVars, finalVars,
                   faults, physical>>

\* lines 295-317 for the outcome o of the request: the Statistics after it
process_player_stats(s, o, valid) ==
    LET s1 == IF GotResponse(o) THEN log_request(s) ELSE s
    IN  IF o = "ok" THEN (IF valid THEN log_success(s1) ELSE s1)
        ELSE IF IsClientError(ExcType(o)) THEN log_failure(s1, ExcType(o))
        ELSE s1

\* line 314: the exceptions the task absorbs
absorbs_any(type) == TRUE
absorbs(type) == IsClientError(type)

\* line 606: current_cache is previous_cache.copy(), a dict of its own, so
\* what previous_cache holds after an assignment to the working dict (line
\* 307) is what it held before; were the two names one dict, it would be the
\* working dict as written
previous_aliased(previous, written) == written
previous_after_write(previous, written) == previous

\* lines 295-317: the response (or the failure) of the request arrives; the
\* task runs to its end and leaves the semaphore
TaskResponse(t, o) ==
    /\ mainPc = "gather"
    /\ t \in TaskIds
    /\ taskPc[t] = "fetching"
    /\ AllStarted
    /\ MayEnd(o)
    /\ LET nick == tasks[t]
           profile_data == Profile(nick)
           valid == validate_player_data(profile_data)
           end == IF o = "ok" \/ absorbs(ExcType(o)) THEN "done" ELSE "raised"
       IN  /\ stats' = process_player_stats(stats, o, valid)
           /\ current_cache' = IF o = "ok" /\ valid
                               THEN Put(current_cache, nick, profile_data)
                               ELSE current_cache
           /\ previous_cache' = IF o = "ok" /\ valid
                                THEN previous_after_write(previous_cache,
                                                          current_cache')
                                ELSE previous_cache
           /\ taskWrote' = [taskWrote EXCEPT ![t] = IF o = "ok" /\ valid
                                                    THEN @ \cup {nick} ELSE @]
           /\ result' = [result EXCEPT ![t] = IF o = "ok" /\ valid
                                              THEN profile_data ELSE None]
           /\ taskPc' = ReleasedPc([taskPc EXCEPT ![t] = end], waiters)
    /\ taskOut' = [taskOut EXCEPT ![t] = o]
    /\ taskAttempts' = [taskAttempts EXCEPT ![t] = @ + 1]
    /\ sem' = ReleasedValue(sem, waiters)
    /\ waiters' = ReleasedWaiters(waiters)
    /\ faults' = Injected(o)
    /\ physical' = physical + 1
    /\ UNCHANGED <<input, runVars, mainPc, raised, call, mainVars, file, tasks,
                   finalVars>>

\* line 641: every task is done, gather returns; the session is closed
gather_first_completed(pcs) == \E t \in DOMAIN pcs : pcs[t] = "done"
gather_done(pcs) == \A t \in DOMAIN pcs : pcs[t] = "done"

GatherReturn ==
    /\ mainPc = "gather"
    /\ gather_done(taskPc)
    /\ mainPc' = "save"
    /\ UNCHANGED <<input, runVars, raised, call, mainVars, cacheVars, stats, taskVars,
                   finalVars, faults, physical>>

\* line 641: a task ended with an exception: gather raises it in main, main
\* ends with it, and asyncio.run cancels the tasks still pending, which leave
\* or never enter the semaphore
GatherRaise ==
    /\ mainPc = "gather"
    /\ \E t \in TaskIds : taskPc[t] = "raised"
    /\ mainPc' = "crashed"
    /\ raised' = "TimeoutError"
    /\ taskPc' = [t \in TaskIds |-> IF taskPc[t] \in {"done", "raised"}
                                    THEN taskPc[t] ELSE "cancelled"]
    /\ sem' = sem + Cardinality(Inside)
    /\ waiters' = <<>>
    /\ UNCHANGED <<input, runVars, call, mainVars, cacheVars, stats, tasks, result,
                   taskOut, taskAttempts, taskWrote, finalVars, faults, physical>>

(***************************************************************************)
(* main(): finalizing, lines 644-646                                       *)
(***************************************************************************)
\* line 644
SaveCache ==
    /\ mainPc = "save"
    /\ file' = save_cache(current_cache)
    /\ effects' = Append(effects, "save")
    /\ mainPc' = "render"
    /\ UNCHANGED <<input, runVars, raised, call, mainVars, previous_cache, current_cache,
                   stats, taskVars, rendered, faults, physical>>

\* dict.get(key): None for a key the record does not have
Get(data, key) == IF key \in DOMAIN data THEN data[key] ELSE Null

\* build_player_card, lines 324-335: the class the card of nickname gets
compared_keys == {"status_main", "stats", "roles", "player_plus"}
never_new(nickname, previous) == FALSE
is_new(nickname, previous) == nickname \notin DOMAIN previous
card_class(nickname, data, previous) ==
    LET prev_data == IF nickname \in DOMAIN previous THEN previous[nickname]
                     ELSE EmptyCache
    IN  IF is_new(nickname, previous) THEN "new"
        ELSE IF \E key \in compared_keys : Get(data, key) # Get(prev_data, key)
             THEN "changed" ELSE "none"

card_classes(cache, previous) ==
    [nickname \in DOMAIN cache |-> card_class(nickname, cache[nickname], previous)]

\* line 645: generate_html_report builds one card per entry of the cache
\* (lines 581-583) and writes the report
GenerateReport ==
    /\ mainPc = "render"
    /\ rendered' = Append(rendered, [current |-> current_cache,
                                     previous |-> previous_cache,
                                     classes |-> card_classes(current_cache,
                                                              previous_cache)])
    /\ effects' = Append(effects, "render")
    /\ mainPc' = "report"
    /\ UNCHANGED <<input, runVars, raised, call, mainVars, cacheVars, stats, taskVars,
                   faults, physical>>

\* line 646: logger.info(stats.get_report())
log_report_skipped(e) == e
log_report(e) == Append(e, "stats")

\* line 646
LogStatistics ==
    /\ mainPc = "report"
    /\ effects' = log_report(effects)
    /\ mainPc' = "done"
    /\ UNCHANGED <<input, runVars, raised, call, mainVars, cacheVars, stats, taskVars,
                   rendered, faults, physical>>

(***************************************************************************)
(* The program is run again (lines 649-663) after a run that met no        *)
(* failure: a new process, with new Statistics, the same arguments and the *)
(* same server, which finds the cache file as the first run left it.       *)
(***************************************************************************)
RunAgain ==
    /\ mainPc = "done"
    /\ run = 1
    /\ faults = 0
    /\ run' = 2
    /\ firstSnapshot' = [cache |-> current_cache, file |-> file]
    /\ mainPc' = "idle"
    /\ call' = NewCall("none", NewStatistics)
    /\ offset' = 0
    /\ all_players' = <<>>
    /\ pageCalls' = <<>>
    /\ previous_cache' = EmptyCache
    /\ current_cache' = EmptyCache
    /\ stats' = NewStatistics
    /\ tasks' = <<>>
    /\ taskPc' = <<>>
    /\ result' = <<>>
    /\ taskOut' = <<>>
    /\ taskAttempts' = <<>>
    /\ taskWrote' = <<>>
    /\ sem' = 0
    /\ waiters' = <<>>
    /\ effects' = <<>>
    /\ rendered' = <<>>
    /\ physical' = 0
    /\ UNCHANGED <<input, raised, file, faults>>

Next ==
    \/ MissingCredentials
    \/ Start
    \/ \E o \in LoginOutcomes : LoginAttempt(o)
    \/ LoginWake
    \/ EnumLoop
    \/ \E o \in Outcomes : ListAttempt(o)
    \/ ListWake
    \/ ScheduleTasks
    \/ \E t \in TaskIds : TaskStart(t)
    \/ \E t \in TaskIds : TaskResume(t)
    \/ \E t \in TaskIds : \E o \in ProfileOutcomes : TaskResponse(t, o)
    \/ GatherReturn
    \/ GatherRaise
    \/ SaveCache
    \/ GenerateReport
    \/ LogStatistics
    \/ RunAgain

Spec == Init /\ [][Next]_vars

Terminal == {"exit1", "aborted", "crashed", "done"}

TypeOK ==
    /\ mainPc \in {"idle", "login", "login_sleep", "enum", "list", "list_sleep",
                   "schedule", "gather", "save", "render", "report"} \cup Terminal
    /\ \A t \in TaskIds : taskPc[t] \in {"created", "waiting", "woken", "fetching",
                                         "done", "raised", "cancelled"}
    /\ call.attempt \in 0..RETRY_ATTEMPTS
    /\ faults \in 0..input.budget
    /\ physical \in Nat
    /\ run \in {1, 2}
    /\ DOMAIN taskWrote = TaskIds
    /\ \A i \in 1..Len(pageCalls) : pageCalls[i] \in Nat
    /\ DOMAIN firstSnapshot.cache \subseteq Nicknames


(***************************************************************************)
(* Properties                                                              *)
(***************************************************************************)
Count(seq, x) == Cardinality({i \in 1..Len(seq) : seq[i] = x})
LastOut(c) == c.outs[Len(c.outs)]
LoginSucceeded == call.op = "list" \/ (call.op = "login" /\ call.result = "ok")
LoginFailed == call.op = "login" /\ call.result = "error"
\* the spec's classification: network failure, timeout, 5xx-style status
Transient(o) == o \in {"conn", "payload", "timeout", "s5xx"}
\* this step is a physical attempt of main's logical call that failed
AttemptFailed ==
    /\ call'.op = call.op
    /\ call'.attempt = call.attempt + 1
    /\ LastOut(call') # "ok"
\* this step is task t running lines 283-295 with the permit held
Enters(t) == taskPc[t] \in {"created", "woken"} /\ taskPc'[t] \in {"fetching", "done"}
\* this step ends the profile request of task t
FetchEnds(t) == taskPc[t] = "fetching" /\ taskPc'[t] \in {"done", "raised"}

\* C1: in every reachable state at most MAX_CONCURRENT_REQUESTS (5) tasks
\* are inside the limiter (admitted and not yet returned), however many
\* identifiers are scheduled.
C1_LimiterBound ==
    /\ Cardinality(Inside) <= MAX_CONCURRENT_REQUESTS
    /\ Cardinality({t \in TaskIds : taskPc[t] = "fetching"}) <= MAX_CONCURRENT_REQUESTS
C1_Witness ==
    /\ Cardinality({t \in TaskIds : taskPc[t] = "fetching"}) = MAX_CONCURRENT_REQUESTS
    /\ waiters # <<>>

\* C2: once processing has started, every scheduled task completes: when the
\* run has ended, no scheduled task is left that did not run to its end
\* (returned, or ended with its own exception).
C2_AllTasksComplete ==
    mainPc \in Terminal => \A t \in TaskIds : taskPc[t] \in {"done", "raised"}

\* C3: a task whose identifier is in the Cache with a Record that passes
\* validation issues no network call (the request counter and its attempt
\* count do not change), returns the cached Record and leaves the Cache
\* unchanged.
C3_CacheHitSkip ==
    [][\A t \in TaskIds :
          (/\ Enters(t)
           /\ tasks[t] \in DOMAIN current_cache
           /\ validate_player_data(current_cache[tasks[t]]))
          => /\ taskPc'[t] = "done"
             /\ result'[t] = current_cache[tasks[t]]
             /\ current_cache' = current_cache
             /\ stats'.requests_made = stats.requests_made
             /\ taskAttempts'[t] = 0
             /\ faults' = faults]_vars
C3_Witness ==
    \E t \in TaskIds : taskOut[t] = "hit" /\ taskPc[t] = "done" /\ result[t] = Profile(tasks[t])

\* C4: when login has failed (its retries exhausted, or an error that is not
\* retried), the run is Aborted: no page was listed, no task was created, the
\* Cache in memory and on disk is as it was loaded, and neither save nor
\* renderer ran.
C4_LoginFailureAborts ==
    LoginFailed =>
        /\ mainPc = "aborted"
        /\ raised # "none"
        /\ all_players = <<>>
        /\ tasks = <<>>
        /\ stats.requests_made = 0
        /\ stats.players_processed = 0
        /\ current_cache = previous_cache
        /\ current_cache = load_cache(input.file)
        /\ file = input.file
        /\ effects = <<>>
        /\ rendered = <<>>
C4_Witness ==
    /\ mainPc = "aborted"
    /\ raised = "RetryError"
    /\ call.attempt = RETRY_ATTEMPTS
    /\ file.kind = "json"

\* C5 (as claimed): in every terminal state of a run started with
\* credentials, Done and Aborted alike, the statistics report has been
\* emitted exactly once.
C5_StatsAlwaysEmitted ==
    mainPc \in {"done", "aborted"} => Count(effects, "stats") = 1
\* C5 (amended): the statistics report is emitted exactly once in a run that
\* reaches Done, as its last step, and not at all in a run that does not
\* (Aborted after a login failure included).
C5_StatsEmittedOnDone ==
    /\ mainPc = "done" => Count(effects, "stats") = 1 /\ effects[Len(effects)] = "stats"
    /\ mainPc # "done" => Count(effects, "stats") = 0
C5_Witness == mainPc = "done" /\ Count(effects, "stats") = 1 /\ stats.retries > 0

\* C6: once login has succeeded, a run that has ended has ended in Done, with
\* the cache persisted, the renderer invoked and the statistics emitted,
\* whatever failures its page and entity fetches met.
C6_OnlyLoginAborts ==
    LoginSucceeded /\ mainPc \in Terminal =>
        /\ mainPc = "done"
        /\ effects = <<"save", "render", "stats">>

\* C7: when the profile request of a task fails, the Cache is left as it was
\* and the failure counter of that error kind goes up by exactly one.
C7_FailedFetchCountedOnce ==
    [][\A t \in TaskIds :
          FetchEnds(t) /\ taskOut'[t] # "ok"
          => /\ current_cache' = current_cache
             /\ stats'.failures[ExcType(taskOut'[t])]
                    = stats.failures[ExcType(taskOut'[t])] + 1]_vars

\* C8: a logical call of login or listPage that fails twice with a Transient
\* error and succeeds on the third attempt has raised the retry counter by
\* exactly 2 and the success counter by exactly 1; while a retry delay is
\* awaited the retry counter already counts that retry.
C8_TwoRetriesOneSuccess ==
    [][/\ (/\ call'.op = call.op
            /\ call.result = "pending"
            /\ call'.result = "ok"
            /\ call'.attempt = 3
            /\ \A i \in 1..2 : Transient(call'.outs[i]))
           => /\ stats'.retries - call'.retries0 = 2
              /\ stats'.success - call'.success0 = 1
       /\ mainPc' \in {"login_sleep", "list_sleep"}
           => stats'.retries - call'.retries0 = call'.attempt]_vars

\* C9 (as claimed): login, listPage and fetchEntity alike make exactly 3
\* physical attempts when they keep failing with Transient errors, and never
\* more than 3. Stated for the Transient errors that are aiohttp.ClientErrors
\* (connection failure, broken body, 5xx status), the ones the retrying
\* wrapper is configured for.
RetriedTransient(o) == Transient(o) /\ IsClientError(ExcType(o))
C9_AllOperationsRetried ==
    /\ call.attempt <= 3
    /\ \A t \in TaskIds : taskAttempts[t] <= 3
    /\ (call.result = "error"
          /\ \A i \in 1..Len(call.outs) : RetriedTransient(call.outs[i]))
         => call.attempt = 3
    /\ \A t \in TaskIds :
         taskPc[t] = "done" /\ RetriedTransient(taskOut[t]) => taskAttempts[t] = 3
\* C9 (amended): login and listPage make exactly 3 physical attempts when
\* every attempt fails with an aiohttp.ClientError, and then RetryError is
\* surfaced; no logical call makes more than 3 attempts; the profile request
\* of process_player is made exactly once and never retried.
C9_RetriedThriceFetchOnce ==
    /\ call.attempt <= RETRY_ATTEMPTS
    /\ (call.result = "error" /\ IsClientError(ExcType(LastOut(call))))
         => /\ call.attempt = RETRY_ATTEMPTS
            /\ \A i \in 1..Len(call.outs) : IsClientError(ExcType(call.outs[i]))
    /\ mainPc = "aborted" /\ IsClientError(ExcType(LastOut(call)))
         => raised = "RetryError"
    /\ \A t \in TaskIds :
         /\ taskAttempts[t] <= 1
         /\ taskOut[t] \notin {"none", "hit"} => taskAttempts[t] = 1
C9_Witness ==
    /\ call.result = "error"
    /\ call.attempt = RETRY_ATTEMPTS
    /\ call.op = "list"
    /\ mainPc = "gather"

\* C10 (as claimed): a failed attempt of login or listPage is retried if and
\* only if its error is Transient and attempts remain; any other error is
\* not retried.
C10_RetryIffTransient ==
    [][AttemptFailed =>
         (call'.result = "pending"
            <=> Transient(LastOut(call')) /\ call'.attempt < RETRY_ATTEMPTS)]_vars
\* C10 (amended): a failed attempt of login or listPage is retried if and
\* only if its exception is an aiohttp.ClientError (a connection failure, a
\* broken body, any non-success status, 4xx as well as 5xx) and fewer than 3
\* attempts were made; an asyncio.TimeoutError is never retried and leaves
\* the call after that attempt.
C10_RetryIffClientError ==
    [][AttemptFailed =>
         /\ (call'.result = "pending"
               <=> IsClientError(ExcType(LastOut(call')))
                   /\ call'.attempt < RETRY_ATTEMPTS)
         /\ (call'.result = "pending"
               <=> mainPc' \in {"login_sleep", "list_sleep"})
         /\ call'.result \in {"pending", "error"}]_vars
C10_Witness ==
    /\ mainPc \in {"login_sleep", "list_sleep"}
    /\ LastOut(call) = "s4xx"

\* the pages the server holds at offsets 0, 50, ..., 50 * (k - 1), joined
RECURSIVE PagesBefore(_)
PagesBefore(k) ==
    IF k = 0 THEN <<>>
    ELSE PagesBefore(k - 1) \o ServerPage(input.roster, PAGE_STEP * (k - 1))
\* the enumeration is over
Enumerated == mainPc \notin {"idle", "login", "login_sleep", "enum", "list", "list_sleep",
                             "exit1", "aborted"}
\* the enumeration is over, and a page that came back empty ended it
EndedByEmptyPage ==
    /\ Enumerated
    /\ call.op = "list"
    /\ call.result = "ok"
    /\ offset <= input.max_offset
\* the tasks main created, once it has created them
Scheduled == mainPc \notin {"schedule"}

\* C11: when a page comes back empty the enumeration is over: the pages
\* requested are those up to the empty one and none after it, the summaries
\* kept are the pages before the empty one joined in order, and the
\* identifiers scheduled are the identifiers of those summaries, in order,
\* duplicates included.
C11_StopsAtFirstEmptyPage ==
    LET n == Len(pageCalls) IN
    /\ \A i \in 1..(n - 1) : ServerPage(input.roster, pageCalls[i]) # <<>>
    /\ EndedByEmptyPage =>
           /\ n >= 1
           /\ pageCalls[n] = offset
           /\ \A i \in 1..n : pageCalls[i] = PAGE_STEP * (i - 1)
           /\ ServerPage(input.roster, pageCalls[n]) = <<>>
           /\ all_players = PagesBefore(n - 1)
           /\ Scheduled => tasks = SelectSeq(PagesBefore(n - 1), HasNickname)
C11_Witness ==
    /\ EndedByEmptyPage
    /\ mainPc = "gather"
    /\ pageCalls = <<0, PAGE_STEP, 2 * PAGE_STEP>>
    /\ Len(all_players) > PageLen
    /\ Len(tasks) < Len(all_players)

\* the spec's validation rule, on the Record's two required fields
AnyRequired(rec) == rec.status_main # Null \/ rec.stats # Null

\* C12: the candidate Record of a successful fetch is written to the Cache,
\* under its identifier, if and only if at least one of status_main and stats
\* is non-null; a candidate with both null is not written and leaves the
\* Cache as it was.  The skip path is taken if and only if the Cache holds
\* a Record for the identifier that passes the same any-of rule.
C12_WrittenIffAnyRequired ==
    [][\A t \in TaskIds :
          /\ (FetchEnds(t) /\ taskOut'[t] = "ok") =>
                LET nick == tasks[t]
                    rec == Profile(nick)
                IN  IF AnyRequired(rec)
                    THEN /\ DOMAIN current_cache' = DOMAIN current_cache \cup {nick}
                         /\ current_cache'[nick] = rec
                         /\ \A k \in DOMAIN current_cache \ {nick} :
                                current_cache'[k] = current_cache[k]
                    ELSE current_cache' = current_cache
          /\ Enters(t) =>
                ((taskPc'[t] = "done")
                    <=> (/\ tasks[t] \in DOMAIN current_cache
                         /\ AnyRequired(current_cache[tasks[t]])))
      ]_vars
C12_Witness ==
    \E t, u \in TaskIds :
        /\ tasks[t] = "a" /\ taskOut[t] = "ok"
        /\ "a" \in DOMAIN current_cache /\ current_cache["a"].status_main = Null
        /\ tasks[u] = "c" /\ taskOut[u] = "ok"
        /\ "c" \notin DOMAIN current_cache

Writers(k) == {t \in TaskIds : k \in taskWrote[t]}

\* C14 (as stated): within one run no two tasks write the same Cache entry.
C14_OneWriterPerKey ==
    \A t, u \in TaskIds : t # u => taskWrote[t] \cap taskWrote[u] = {}
\* C14 (amended): a task writes at most one Cache entry, that of its own
\* identifier, and none when it takes the skip path; the Cache holds exactly
\* the keys some task wrote, each with the Record fetched for that identifier.
\* Hence two tasks write the same entry only when they were scheduled for the
\* same identifier (which happens: occurrences of a duplicate are all
\* scheduled, and those admitted before any of them has written all write).
C14_WritesOwnKeyOnly ==
    /\ \A t \in TaskIds :
          /\ taskWrote[t] \subseteq {tasks[t]}
          /\ taskOut[t] = "hit" => taskWrote[t] = {}
    /\ \A t, u \in TaskIds :
          taskWrote[t] \cap taskWrote[u] # {} => tasks[t] = tasks[u]
    /\ DOMAIN current_cache = UNION {taskWrote[t] : t \in TaskIds}
    /\ \A k \in DOMAIN current_cache : current_cache[k] = Profile(k)
C14_Witness ==
    \E k \in Nicknames :
        /\ Cardinality(Writers(k)) >= 2
        /\ \E t \in TaskIds : tasks[t] = k /\ taskOut[t] = "hit"

\* the tasks for identifier k that made the request
Fetched(k) == {t \in TaskIds : tasks[t] = k /\ taskOut[t] \notin {"none", "hit"}}
\* every identifier met one fetch outcome in this run, whichever of its tasks
\* asked and whenever
OutcomePerIdentifier ==
    \A t, u \in TaskIds :
        (tasks[t] = tasks[u] /\ t \in Fetched(tasks[t]) /\ u \in Fetched(tasks[u]))
            => taskOut[t] = taskOut[u]
\* the identifiers whose (one) fetch outcome is a document with a valid Record
Obtained ==
    {k \in Nicknames : \E t \in Fetched(k) : taskOut[t] = "ok" /\ AnyRequired(Profile(k))}
\* processing is over and main has gone on to Finalizing
Finalizing == mainPc \in {"save", "render", "report", "done"}

\* C15: for a fixed previous snapshot, identifier sequence and fetch outcome
\* per identifier, the Cache that processing ends with is a function of those
\* alone: the previous snapshot overlaid with the Record of every scheduled
\* identifier whose outcome is a valid document - whatever the order in which
\* tasks were admitted, answered and completed.
C15_OrderIndependent ==
    (Finalizing /\ OutcomePerIdentifier) =>
        /\ DOMAIN current_cache = DOMAIN previous_cache \cup Obtained
        /\ \A k \in Obtained : current_cache[k] = Profile(k)
        /\ \A k \in DOMAIN previous_cache \ Obtained : current_cache[k] = previous_cache[k]
C15_Witness ==
    /\ Finalizing
    /\ OutcomePerIdentifier
    /\ Cardinality(Obtained) >= 2
    /\ \E k \in Obtained : Cardinality(Fetched(k)) >= 2
    /\ \E t \in TaskIds : taskOut[t] = "hit"
    /\ \E t \in TaskIds : taskOut[t] = "conn"

\* the second of two runs in succession has ended
SecondRunDone == run = 2 /\ mainPc = "done"

C18_RequestsCountAttempts == stats.requests_made = physical

\* C19: a logical call of login or fetch_players that has ended raised the
\* success counter by exactly one since it began if it returned, and not at
\* all if it failed, however many attempts it took; a profile request that
\* ends raises it by exactly one if the document was obtained - whether or
\* not the Record parsed from it passes validation - and not at all if the
\* request failed.
C19_SuccessPerLogicalCall ==
    [][/\ (call'.attempt = call.attempt + 1 /\ call'.result # "pending") =>
             stats'.success - call'.success0 = (IF call'.result = "ok" THEN 1 ELSE 0)
       /\ \A t \in TaskIds :
             FetchEnds(t) =>
                stats'.success - stats.success = (IF taskOut'[t] = "ok" THEN 1 ELSE 0)
      ]_vars

\* the enumeration is over and met neither a failed page fetch nor an empty page
EndedByCeiling ==
    /\ Enumerated
    /\ call.result = "ok"
    /\ \A i \in 1..Len(pageCalls) : ServerPage(input.roster, pageCalls[i]) # <<>>
\* the enumeration is over, and a page fetch that failed ended it
EndedByFailure == Enumerated /\ call.op = "list" /\ call.result = "error"
\* what holds of the page calls made so far
PageCallsInOrder ==
    /\ \A i \in 1..Len(pageCalls) :
          /\ pageCalls[i] = PAGE_STEP * (i - 1)
          /\ pageCalls[i] <= input.max_offset
    /\ Len(pageCalls) <= (input.max_offset \div PAGE_STEP) + 1
    /\ EndedByCeiling =>
          /\ Len(pageCalls) = (input.max_offset \div PAGE_STEP) + 1
          /\ offset > input.max_offset
    /\ all_players = PagesBefore(offset \div PAGE_STEP)
    /\ mainPc \in {"gather", "save", "render", "report", "done", "crashed"} =>
          tasks = SelectSeq(all_players, HasNickname)

\* C20: the page calls are made at offsets 0, 50, 100, ... in this order, none
\* above max_offset, hence at most max_offset / 50 + 1 of them (exactly that
\* many when no page is empty and none fails); a page call starts only when
\* the previous one has ended; the offset moves only by 50 and only when a
\* non-empty page has been returned, which is then appended; a page fetch
\* that fails ends the enumeration and the identifiers accumulated until
\* then are scheduled.
C20_PagesInOrderUpToCeiling ==
    [][/\ PageCallsInOrder'
       /\ (pageCalls' # pageCalls /\ run' = run) =>
             /\ call.result # "pending"
             /\ pageCalls' = Append(pageCalls, offset)
             /\ call'.result = "pending"
       /\ (offset' # offset /\ run' = run) =>
             /\ offset' = offset + PAGE_STEP
             /\ call'.op = "list" /\ call'.result = "ok"
             /\ ServerPage(input.roster, offset) # <<>>
             /\ all_players' = all_players \o ServerPage(input.roster, offset)
       /\ (call'.op = "list" /\ call.result = "pending" /\ call'.result = "error") =>
             /\ mainPc' = "schedule"
             /\ all_players' = all_players
             /\ offset' = offset
      ]_vars
C20_Witness ==
    /\ EndedByFailure
    /\ mainPc = "gather"
    /\ Len(call.outs) = RETRY_ATTEMPTS
    /\ Len(pageCalls) = 2
    /\ Len(tasks) >= 2

\* C21: the previous snapshot is what load_cache returned when the run began
\* and the working Cache starts equal to it; from then on no step of the run
\* changes its key set or any Record in it, whatever the tasks write to the
\* working Cache, and it is that snapshot the renderer is handed.
C21_PreviousSnapshotFrozen ==
    [][/\ (mainPc = "idle" /\ mainPc' = "login") =>
             /\ previous_cache' = load_cache(file)
             /\ current_cache' = previous_cache'
       /\ (mainPc # "idle" /\ run' = run) =>
             /\ DOMAIN previous_cache' = DOMAIN previous_cache
             /\ \A k \in DOMAIN previous_cache : previous_cache'[k] = previous_cache[k]
       /\ (rendered' # rendered /\ run' = run) =>
             rendered'[Len(rendered')].previous = previous_cache
      ]_vars
C21_Witness ==
    /\ Len(rendered) = 1
    /\ rendered[1].previous = previous_cache
    /\ Cardinality(DOMAIN rendered[1].current) >= 2
    /\ \A k \in DOMAIN rendered[1].current : k \notin DOMAIN rendered[1].previous
    /\ \E k \in Nicknames : Cardinality(Writers(k)) >= 2

\* the semaphore of the run exists (line 604 has run)
SemaphoreMade == mainPc \notin {"idle", "exit1"}
\* the tasks suspended in acquire
Waiting == {t \in TaskIds : taskPc[t] = "waiting"}

\* C22: once the semaphore exists, the permits held by the tasks inside it
\* and the free permits add up to MAX_CONCURRENT_REQUESTS (5) in every state,
\* whichever way tasks left it (cache hit, write, invalid candidate, absorbed
\* failure, escaped exception, cancellation); a task waits only while all 5
\* permits are held, and then a task that is starting or inside can take its
\* next step (or the run is ending with a task's exception); the tasks
\* waiting are exactly the queued ones, and when main has left gather no task
\* is inside or waiting and all 5 permits are free.
C22_PermitsConserved ==
    SemaphoreMade =>
        /\ sem \in 0..MAX_CONCURRENT_REQUESTS
        /\ sem + Cardinality(Inside) = MAX_CONCURRENT_REQUESTS
        /\ Waiting = {waiters[i] : i \in 1..Len(waiters)}
        /\ Len(waiters) = Cardinality(Waiting)
        /\ Waiting # {} => Cardinality(Inside) = MAX_CONCURRENT_REQUESTS
        /\ (mainPc = "gather" /\ Waiting # {}) =>
              ENABLED (\/ \E t \in TaskIds : TaskStart(t) \/ TaskResume(t)
                       \/ \E t \in Inside : TaskResponse(t, "ok")
                       \/ GatherRaise)
        /\ mainPc # "gather" =>
              /\ Inside = {}
              /\ Waiting = {}
              /\ sem = MAX_CONCURRENT_REQUESTS
C22_Witness ==
    /\ mainPc = "crashed"
    /\ sem = MAX_CONCURRENT_REQUESTS
    /\ Len(tasks) > MAX_CONCURRENT_REQUESTS
    /\ \E t \in TaskIds : taskPc[t] = "raised"
    /\ \E t \in TaskIds : taskPc[t] = "cancelled"
    /\ \E t \in TaskIds : taskOut[t] = "hit"
    /\ \E t \in TaskIds : taskWrote[t] # {}

====
